---- MODULE Spec2Model ----
(***************************************************************************)
(* Trip detection engine of google_timeline_analyzer                       *)
(* (src/src/analysis/trip_detector.py over the tables of                   *)
(* src/src/core/database.py).                                              *)
(*                                                                         *)
(* Time is counted in whole hours from 00:00 of day 0, so that             *)
(* date(t) = t \div 24 and hour(t) = t % 24.  Distances are metres.  A     *)
(* geographic point is represented by its ST_Distance to the profile's     *)
(* home_location, the only way the detectors ever look at a point.         *)
(* The places table is taken to hold a row for every place identifier of   *)
(* the timeline (foreign keys of trip_destinations are satisfied).         *)
(***************************************************************************)
EXTENDS Integers, Sequences, FiniteSets, TLC

VARIABLES segments, profile, trips, next_id, ses, last, nruns

vars == <<segments, profile, trips, next_id, ses, last, nruns>>

(* ---------------------------------------------------------------- bounds *)
MaxSegs == 4
MaxRuns == 2

(* ------------------------------------------------------------- constants *)
None == "None"
NoNum == -1
HomeRadiusM == 1000
OvernightMinHours == 6
NightStartHour == 20
NightEndHour == 8
OvernightGapHours == 48
MinClusterSize == 2
DefaultMinNights == 1
DefaultTimeGapHours == 6
get_trip_summary_params == 0
detect_summary_args == 2
Sessions == {1, 2}

(* ------------------------------------------------------ timeline records *)
Visit(st, en, place, loc) ==
    [segment_type |-> "visit", start_time |-> st, end_time |-> en,
     place_id |-> place, location |-> loc,
     activity_type |-> None, distance_meters |-> NoNum, start_location |-> NoNum,
     distance_from_origin_kms |-> NoNum, destination_place_ids |-> <<>>]

Activity(st, en, atype, dist, sloc) ==
    [segment_type |-> "activity", start_time |-> st, end_time |-> en,
     place_id |-> None, location |-> NoNum,
     activity_type |-> atype, distance_meters |-> dist, start_location |-> sloc,
     distance_from_origin_kms |-> NoNum, destination_place_ids |-> <<>>]

Memory(st, en, kms, dests) ==
    [segment_type |-> "memory", start_time |-> st, end_time |-> en,
     place_id |-> None, location |-> NoNum,
     activity_type |-> None, distance_meters |-> NoNum, start_location |-> NoNum,
     distance_from_origin_kms |-> kms, destination_place_ids |-> dests]

Path(st, en) ==
    [segment_type |-> "path", start_time |-> st, end_time |-> en,
     place_id |-> None, location |-> NoNum,
     activity_type |-> None, distance_meters |-> NoNum, start_location |-> NoNum,
     distance_from_origin_kms |-> NoNum, destination_place_ids |-> <<>>]

(* The catalogue the imported timelines are drawn from, in import order.   *)
Pool ==
    << Visit(8, 9, "H", 500),                        \*  1 home, 08:00 day 0
       Activity(9, 10, "walking", 500, 6000),        \*  2
       Activity(10, 12, "driving", 500, 6000),       \*  3
       Visit(12, 13, "P1", 6000),                    \*  4 far visit
       Visit(13, 14, "H", 0),                        \*  5 home, at the home point
       Activity(16, 18, "driving", 3000, 6000),      \*  6 far, 3 h after 4
       Visit(21, 32, "P1", 6000),                    \*  7 21:00 day 0 .. 08:00 day 1
       Visit(45, 56, "P1", 6000),                    \*  8 21:00 day 1 .. 08:00 day 2
       Visit(57, 58, "H", 500),                      \*  9 home, day 2
       Visit(69, 80, "P2", 6000),                    \* 10 21:00 day 2 .. 08:00 day 3
       Visit(141, 152, "P2", 1000),                  \* 11 21:00 day 5 .. 08:00 day 6
       Memory(22, 25, 3, <<"P1", "P2">>),            \* 12 22:00 day 0 .. 01:00 day 1
       Memory(22, 25, NoNum, <<>>),                  \* 13 same bounds as 12
       Memory(9, 12, 0, <<"P1">>),                   \* 14 within day 0
       Path(10, 11),                                 \* 15
       Activity(14, 15, "walking", NoNum, NoNum),    \* 16 no distance, no point
       Activity(13, 14, "walking", 500, 6000),       \* 17 starts with home visit 5
       Memory(30, 30, NoNum, <<>>),                  \* 18 zero duration
       Visit(40, 40, "P1", 6000),                    \* 19 zero duration, far
       Visit(40, 40, "P2", 6000),                    \* 20 zero duration, far
       Visit(21, 34, "P2", 6000),                    \* 21 21:00 day 0 .. 10:00 day 1
       Visit(25, 32, "P2", 6000),                    \* 22 01:00 day 1 .. 08:00 day 1
       Memory(21, 32, 1, <<"P1">>),                  \* 23 the bounds of visit 7
       Memory(33, 40, 2, <<"P1", "P1">>),            \* 24 one place listed twice
       Visit(93, 104, "H", 500),                     \* 25 a night at home, day 3
       Visit(22, 31, "P2", 6000),                    \* 26 a night nested in visit 7
       Activity(9, 20, "driving", 2000, 6000) >>     \* 27 spans 3, 4, 5 and 6

date(t) == t \div 24
hour(t) == t % 24

(* A Python value used as a condition: None, 0 and "" are false.           *)
TruthyNum(x) == x # NoNum /\ x # 0
TruthyStr(x) == x # None /\ x # ""


(* ------------------------------------------------------------ utilities *)
Range(f) == {f[i] : i \in DOMAIN f}

IsInjective(f) == \A i, j \in DOMAIN f : f[i] = f[j] => i = j

(* list(a_set): the elements of S, each once, in an order Python does not  *)
(* specify.                                                                *)
ListsOfSet(S) == {f \in [1..Cardinality(S) -> S] : IsInjective(f)}

(* The rows of a query over the given segment ids with ORDER BY            *)
(* start_time: rows of equal start_time come in an order the database      *)
(* does not specify.                                                       *)
OrderByStartTime(ids) ==
    {f \in ListsOfSet(ids) :
        \A i, j \in DOMAIN f :
            i < j => segments[f[i]].start_time <= segments[f[j]].start_time}

RECURSIVE SelectSeq2(_, _)
(* [x for x in list if x in keep], order preserved *)
SelectSeq2(list, keep) ==
    IF list = <<>> THEN <<>>
    ELSE IF Head(list) \in keep
         THEN <<Head(list)>> \o SelectSeq2(Tail(list), keep)
         ELSE SelectSeq2(Tail(list), keep)

HasDuplicates(list) == ~IsInjective(list)

(* --------------------------------------------------------- run arguments *)
NoDate == NoNum

Args(sd, ed, mdk, mdh, mn, dtk, tgh) ==
    [start_date |-> sd, end_date |-> ed, min_distance_km |-> mdk,
     min_duration_hours |-> mdh, min_nights |-> mn,
     distance_threshold_km |-> dtk, time_gap_hours |-> tgh]

NoArgs == Args(NoDate, NoDate, 0, 0, 0, 0, 0)

(* The range filter without its end_date test. *)
InRange_from_start_date(seg, p) ==
    p.start_date # NoDate => seg.start_time >= p.start_date

(* query.filter(start_time >= start_date) / filter(end_time <= end_date),  *)
(* each applied only when the bound is given.                              *)
InRange(seg, p) ==
    /\ (p.start_date # NoDate => seg.start_time >= p.start_date)
    /\ (p.end_date # NoDate => seg.end_time <= p.end_date)

SegIds == 1..Len(segments)

(* ------------------------------------------------------------- sessions *)
IdleSession ==
    [pc |-> "idle", alg |-> None, p |-> NoArgs, list |-> <<>>, i |-> 1,
     cur |-> <<>>, cur_distance |-> 0, cur_destinations |-> {},
     trip_count |-> 0, pending |-> <<>>, made |-> <<>>,
     all |-> FALSE, args |-> NoArgs, stats |-> <<>>]

(* the outcome of a call that was not made *)
NoCall == [raised |-> None, value |-> <<>>]

NoRun ==
    [alg |-> None, p |-> NoArgs, trip_count |-> 0, pc |-> "idle", size |-> 0,
     all |-> FALSE, stats |-> <<>>, summary |-> NoCall]

(* Rows a query of session S returns from the trips table: the committed   *)
(* rows and the rows S itself has flushed in its open transaction.         *)
Visible(S) == trips \o S.pending

(* The lookup with the algorithm tag of the memory detector left in place. *)
existing_memory_tag(S, start_time, end_time, algorithm) ==
    \E k \in DOMAIN Visible(S) :
        /\ Visible(S)[k].start_time = start_time
        /\ Visible(S)[k].end_time = end_time
        /\ Visible(S)[k].detection_algorithm = "timeline_memory"

(* db.query(TripModel).filter(start_time ==, end_time ==,                   *)
(* detection_algorithm ==).first() is not None                             *)
existing(S, start_time, end_time, algorithm) ==
    \E k \in DOMAIN Visible(S) :
        /\ Visible(S)[k].start_time = start_time
        /\ Visible(S)[k].end_time = end_time
        /\ Visible(S)[k].detection_algorithm = algorithm

(* trip_destinations has the primary key (trip_id, place_id): the INSERT   *)
(* of the destination rows of a trip that lists one place twice is         *)
(* rejected.                                                               *)
ViolatesDestinationKey(trip) == HasDuplicates(trip.destinations)

(* A flush writes every object added since the last one.  The destination  *)
(* and link rows of a trip are added after the flush of its trip row, so   *)
(* they reach the database with the next flush or with the commit.         *)
FlushRaises(S) ==
    \E k \in DOMAIN S.pending : ViolatesDestinationKey(S.pending[k])


(* --------------------------------------------------- the trip materializer *)
IsActivity(id) == segments[id].segment_type = "activity"
IsVisit(id) == segments[id].segment_type = "visit"

(* segment.activity.distance_meters or 0 *)
distance_or_0(id) ==
    IF TruthyNum(segments[id].distance_meters) THEN segments[id].distance_meters ELSE 0

RECURSIVE SumDistance(_)
(* the sum of distance_meters or 0 over the activity segments of segs *)
SumDistance(segs) ==
    IF segs = <<>> THEN 0
    ELSE (IF IsActivity(Head(segs)) THEN distance_or_0(Head(segs)) ELSE 0)
         + SumDistance(Tail(segs))

RECURSIVE ModeKeys(_, _)
(* the keys of mode_distances in insertion order: the activity types of    *)
(* segs, each at its first occurrence                                      *)
ModeKeys(segs, keys) ==
    IF segs = <<>> THEN keys
    ELSE LET id == Head(segs)
             mode == segments[id].activity_type
         IN  IF IsActivity(id) /\ mode \notin Range(keys)
             THEN ModeKeys(Tail(segs), Append(keys, mode))
             ELSE ModeKeys(Tail(segs), keys)

(* mode_distances[mode] *)
mode_distances(segs, mode) ==
    SumDistance(SelectSeq2(segs, {id \in Range(segs) :
                                     IsActivity(id) /\ segments[id].activity_type = mode}))

(* The last of the maximal items taken, as a loop comparing with >= does.  *)
primary_mode_last_max(segs) ==
    LET keys == ModeKeys(segs, <<>>)
    IN  IF keys = <<>> THEN None
        ELSE LET k == CHOOSE k \in DOMAIN keys :
                          /\ \A j \in DOMAIN keys :
                                mode_distances(segs, keys[j]) <= mode_distances(segs, keys[k])
                          /\ \A j \in (k + 1)..Len(keys) :
                                mode_distances(segs, keys[j]) < mode_distances(segs, keys[k])
             IN  keys[k]

(* max(mode_distances.items(), key=lambda x: x[1])[0] if mode_distances    *)
(* else None: max returns the first of the maximal items.                  *)
primary_mode(segs) ==
    LET keys == ModeKeys(segs, <<>>)
    IN  IF keys = <<>> THEN None
        ELSE LET k == CHOOSE k \in DOMAIN keys :
                          /\ \A j \in DOMAIN keys :
                                mode_distances(segs, keys[j]) <= mode_distances(segs, keys[k])
                          /\ \A j \in 1..(k - 1) :
                                mode_distances(segs, keys[j]) < mode_distances(segs, keys[k])
             IN  keys[k]

(* Multi-day taken as a duration of a day or more, (end - start).days > 0. *)
is_multi_day_by_duration(start_time, end_time) == end_time - start_time >= 24

(* end_time.date() > start_time.date() *)
is_multi_day(start_time, end_time) == date(end_time) > date(start_time)

TripModel(id, start_time, end_time, multi, distance_meters, mode, algorithm, destinations, segs) ==
    [id |-> id, start_time |-> start_time, end_time |-> end_time,
     is_multi_day |-> multi, total_distance_meters |-> distance_meters,
     primary_transport_mode |-> mode, detection_algorithm |-> algorithm,
     destinations |-> destinations, segments |-> segs]

Raised(S) ==
    [S |-> [S EXCEPT !.pc = "failed", !.pending = <<>>, !.made = <<>>],
     nid |-> next_id, raised |-> TRUE]

(* db.add(trip); db.flush(), then db.add of the destination and link rows. *)
AddAndFlush(S, trip) ==
    IF FlushRaises(S) THEN Raised(S)
    ELSE [S |-> [S EXCEPT !.pending = Append(@, trip), !.made = Append(@, trip.id)],
          nid |-> next_id + 1, raised |-> FALSE]

(* TripDetector._create_trip *)
create_trip(S, start_time, end_time, segs, distance_meters, destinations, algorithm) ==
    IF existing(S, start_time, end_time, algorithm)
    THEN [S |-> S, nid |-> next_id, raised |-> FALSE]
    ELSE AddAndFlush(S, TripModel(next_id, start_time, end_time,
                                  is_multi_day(start_time, end_time),
                                  distance_meters, primary_mode(segs), algorithm,
                                  destinations, segs))

RECURSIVE PlaceIds(_)
(* [segments[id].place_id for id in segs if place_id], visits only *)
PlaceIds(segs) ==
    IF segs = <<>> THEN <<>>
    ELSE (IF IsVisit(Head(segs)) /\ TruthyStr(segments[Head(segs)].place_id)
          THEN <<segments[Head(segs)].place_id>> ELSE <<>>)
         \o PlaceIds(Tail(segs))

(* TripDetector._create_overnight_trip *)
create_overnight_trip(S, visits) ==
    IF visits = <<>> THEN [S |-> S, nid |-> next_id, raised |-> FALSE]
    ELSE create_trip(S, segments[visits[1]].start_time,
                     segments[visits[Len(visits)]].end_time,
                     visits, 0, PlaceIds(visits), "overnight")

(* TripDetector._create_clustered_trip; destinations is one of the orders  *)
(* of list(set(destinations)).                                             *)
create_clustered_trip(S, segs, destinations) ==
    IF segs = <<>> THEN [S |-> S, nid |-> next_id, raised |-> FALSE]
    ELSE create_trip(S, segments[segs[1]].start_time,
                     segments[segs[Len(segs)]].end_time,
                     segs, SumDistance(segs), destinations, "distance_based")

(* the position after the loop body of element i *)
Advance(S, after) ==
    IF S.i >= Len(S.list) THEN [S EXCEPT !.i = @ + 1, !.pc = after]
    ELSE [S EXCEPT !.i = @ + 1]


Returned(S) == [S |-> S, nid |-> next_id, raised |-> FALSE]

Begin(algorithm, p, list, after) ==
    [IdleSession EXCEPT !.pc = IF list = <<>> THEN after ELSE "loop",
                        !.alg = algorithm, !.p = p, !.list = list]

(* return 0 before any query: the run ends without a commit *)
ReturnZero(algorithm, p) == [IdleSession EXCEPT !.pc = "done", !.alg = algorithm, !.p = p]

(* ------------------------------------------------------------ user profile *)
UserProfile(exists, home_place_id, home_location) ==
    [exists |-> exists, home_place_id |-> home_place_id, home_location |-> home_location]

NoProfile == UserProfile(FALSE, None, FALSE)
EmptyProfile == UserProfile(TRUE, None, FALSE)
IdProfile == UserProfile(TRUE, "H", FALSE)
CoordProfile == UserProfile(TRUE, None, TRUE)
BothProfile == UserProfile(TRUE, "H", TRUE)

(* The early return taken only when there is no profile row. *)
no_home_without_profile == ~profile.exists

(* not profile or (not profile.home_place_id and not profile.home_location) *)
no_home ==
    \/ ~profile.exists
    \/ (~TruthyStr(profile.home_place_id) /\ ~profile.home_location)

use_distance_based == profile.home_place_id = None /\ profile.home_location

(* ------------------------------------------------- memory-replay detector *)
(* the detector after memories = query.all(): the query has no ORDER BY    *)
memory_pass(p) ==
    {Begin("timeline_memory", p, list, "commit") :
        list \in ListsOfSet({id \in SegIds :
                                /\ segments[id].segment_type = "memory"
                                /\ InRange(segments[id], p)})}

StartMemory(s, A) ==
    /\ ses[s].pc = "idle"
    /\ nruns < MaxRuns
    /\ \E p \in A : \E S \in memory_pass(p) : ses' = [ses EXCEPT ![s] = S]
    /\ nruns' = nruns + 1
    /\ UNCHANGED <<segments, profile, trips, next_id, last>>

(* memory.distance_from_origin_kms or 0) * 1000 *)
memory_distance(id) ==
    (IF TruthyNum(segments[id].distance_from_origin_kms)
     THEN segments[id].distance_from_origin_kms ELSE 0) * 1000

(* memory.segment.end_time.date() > memory.segment.start_time.date() *)
memory_is_multi_day(memory) == date(memory.end_time) > date(memory.start_time)

(* the memory detector's own lookup of a trip at the memory's bounds *)
memory_existing(S, memory) ==
    \E k \in DOMAIN Visible(S) :
        /\ Visible(S)[k].start_time = memory.start_time
        /\ Visible(S)[k].end_time = memory.end_time
        /\ Visible(S)[k].detection_algorithm = "timeline_memory"

MemoryIter(S) ==
    LET id == S.list[S.i]
        memory == segments[id]
    IN  IF memory_existing(S, memory)
        THEN Returned(Advance(S, "commit"))
        ELSE LET R == AddAndFlush(S, TripModel(next_id, memory.start_time, memory.end_time,
                                      memory_is_multi_day(memory),
                                      memory_distance(id), None, "timeline_memory",
                                      memory.destination_place_ids, <<id>>))
             IN  IF R.raised THEN R
                 ELSE [R EXCEPT !.S = Advance([R.S EXCEPT !.trip_count = @ + 1], "commit")]

MemoryStep(s) ==
    /\ ses[s].pc = "loop"
    /\ ses[s].alg = "timeline_memory"
    /\ LET R == MemoryIter(ses[s])
       IN  /\ ses' = [ses EXCEPT ![s] = R.S]
           /\ next_id' = R.nid
    /\ UNCHANGED <<segments, profile, trips, last, nruns>>

(* ---------------------------------------------------- home-based segmenter *)
(* the detector after its guard and segments = query.all() *)
home_pass(p) ==
    IF no_home THEN {ReturnZero("home_based", p)}
    ELSE {Begin("home_based", p, list, "tail") :
             list \in OrderByStartTime({id \in SegIds : InRange(segments[id], p)})}

StartHome(s, A) ==
    /\ ses[s].pc = "idle"
    /\ nruns < MaxRuns
    /\ \E p \in A : \E S \in home_pass(p) : ses' = [ses EXCEPT ![s] = S]
    /\ nruns' = nruns + 1
    /\ UNCHANGED <<segments, profile, trips, next_id, last>>

is_home(id) ==
    LET visit == segments[id]
    IN  IF visit.segment_type # "visit" THEN FALSE
        ELSE IF use_distance_based /\ visit.location # NoNum /\ profile.home_location
             THEN TruthyNum(visit.location) /\ visit.location < HomeRadiusM
             ELSE IF TruthyStr(profile.home_place_id)
                  THEN visit.place_id = profile.home_place_id
                  ELSE FALSE

ResetTrip(S) == [S EXCEPT !.cur = <<>>, !.cur_distance = 0, !.cur_destinations = {}]

(* A closing test on the distance alone. *)
home_accepts_by_distance(p, distance, trip_start, trip_end) ==
    distance >= p.min_distance_km * 1000

(* if current_trip_distance / 1000 >= min_distance_km and                  *)
(*    duration_hours >= min_duration_hours                                 *)
home_accepts(p, distance, trip_start, trip_end) ==
    /\ distance >= p.min_distance_km * 1000
    /\ trip_end - trip_start >= p.min_duration_hours

AddToTrip(S, id) ==
    [S EXCEPT !.cur = Append(@, id),
              !.cur_distance = @ + (IF IsActivity(id) THEN distance_or_0(id) ELSE 0),
              !.cur_destinations =
                  IF IsVisit(id) /\ TruthyStr(segments[id].place_id)
                  THEN @ \cup {segments[id].place_id} ELSE @]

(* trip_start = current_trip_segments[0].start_time *)
trip_start(cur) == segments[cur[1]].start_time

(* The trip closed at the end of the home visit instead of its start. *)
trip_end_of_visit(id) == segments[id].end_time

(* trip_end = segment.start_time, the start of the closing home visit *)
trip_end(id) == segments[id].start_time

(* one pass of the loop body; destinations is one of the orders of         *)
(* list(current_trip_destinations)                                         *)
HomeIter(S, destinations) ==
    LET id == S.list[S.i]
    IN  IF is_home(id)
        THEN IF S.cur # <<>>
             THEN IF home_accepts(S.p, S.cur_distance, trip_start(S.cur), trip_end(id))
                  THEN LET R == create_trip(S, trip_start(S.cur), trip_end(id), S.cur,
                                            S.cur_distance, destinations, "home_based")
                       IN  IF R.raised THEN R
                           ELSE [R EXCEPT !.S = Advance(ResetTrip(
                                    [R.S EXCEPT !.trip_count = @ + 1]), "tail")]
                  ELSE Returned(Advance(ResetTrip(S), "tail"))
             ELSE Returned(Advance(S, "tail"))
        ELSE Returned(Advance(AddToTrip(S, id), "tail"))

HomeStep(s) ==
    /\ ses[s].pc = "loop"
    /\ ses[s].alg = "home_based"
    /\ \E destinations \in ListsOfSet(ses[s].cur_destinations) :
         LET R == HomeIter(ses[s], destinations)
         IN  /\ ses' = [ses EXCEPT ![s] = R.S]
             /\ next_id' = R.nid
    /\ UNCHANGED <<segments, profile, trips, last, nruns>>


(* The open accumulator closed after the loop, as the overnight and        *)
(* distance-based detectors do with their last group.                      *)
HomeLast_closes_open(S, destinations) ==
    IF /\ S.cur # <<>>
       /\ home_accepts(S.p, S.cur_distance, trip_start(S.cur),
                       segments[S.cur[Len(S.cur)]].end_time)
    THEN LET R == create_trip(S, trip_start(S.cur), segments[S.cur[Len(S.cur)]].end_time,
                              S.cur, S.cur_distance, destinations, "home_based")
         IN  IF R.raised THEN R
             ELSE [R EXCEPT !.S = [R.S EXCEPT !.trip_count = @ + 1, !.pc = "commit"]]
    ELSE Returned([S EXCEPT !.pc = "commit"])

(* After the loop the detector goes straight to the commit: segments       *)
(* still in current_trip_segments are dropped.                             *)
HomeLast(S, destinations) == Returned([S EXCEPT !.pc = "commit"])

HomeEnd(s) ==
    /\ ses[s].pc = "tail"
    /\ ses[s].alg = "home_based"
    /\ \E destinations \in ListsOfSet(ses[s].cur_destinations) :
         LET R == HomeLast(ses[s], destinations)
         IN  /\ ses' = [ses EXCEPT ![s] = R.S]
             /\ next_id' = R.nid
    /\ UNCHANGED <<segments, profile, trips, last, nruns>>

(* ------------------------------------------------ overnight-stay clusterer *)
(* the filters of the overnight query: start hour, end hour, duration, and *)
(* in identifier mode VisitModel.place_id != home_place_id, which SQL does *)
(* not satisfy for a NULL place_id                                         *)
overnight_query(id) ==
    LET segment == segments[id]
    IN  /\ IsVisit(id)
        /\ hour(segment.start_time) >= NightStartHour
        /\ hour(segment.end_time) <= NightEndHour
        /\ segment.end_time - segment.start_time >= OvernightMinHours
        /\ (~use_distance_based =>
               segment.place_id # None /\ segment.place_id # profile.home_place_id)

(* the Python filter of coordinate mode: only visits at 1 km or more *)
overnight_filter(id) ==
    use_distance_based =>
        /\ segments[id].location # NoNum
        /\ profile.home_location
        /\ TruthyNum(segments[id].location)
        /\ segments[id].location >= HomeRadiusM

overnight_visits(p) ==
    {id \in SegIds : overnight_query(id) /\ InRange(segments[id], p) /\ overnight_filter(id)}

(* the detector after its guard, its query and the distance filter *)
overnight_pass(p) ==
    IF no_home THEN {ReturnZero("overnight", p)}
    ELSE {Begin("overnight", p, list, "tail") :
             list \in OrderByStartTime(overnight_visits(p))}

StartOvernight(s, A) ==
    /\ ses[s].pc = "idle"
    /\ nruns < MaxRuns
    /\ \E p \in A : \E S \in overnight_pass(p) : ses' = [ses EXCEPT ![s] = S]
    /\ nruns' = nruns + 1
    /\ UNCHANGED <<segments, profile, trips, next_id, last>>

(* A new trip after a gap of more than a day. *)
overnight_new_trip_after_a_day(last_segment, segment) ==
    segments[segment].start_time - segments[last_segment].end_time > 24

(* time_gap > 48 * 3600 *)
overnight_new_trip(last_segment, segment) ==
    segments[segment].start_time - segments[last_segment].end_time > OvernightGapHours

OvernightIter(S) ==
    LET id == S.list[S.i]
    IN  IF S.cur = <<>>
        THEN Returned(Advance([S EXCEPT !.cur = <<id>>], "tail"))
        ELSE IF overnight_new_trip(S.cur[Len(S.cur)], id)
             THEN IF Len(S.cur) >= S.p.min_nights
                  THEN LET R == create_overnight_trip(S, S.cur)
                       IN  IF R.raised THEN R
                           ELSE [R EXCEPT !.S = Advance(
                                    [R.S EXCEPT !.trip_count = @ + 1, !.cur = <<id>>], "tail")]
                  ELSE Returned(Advance([S EXCEPT !.cur = <<id>>], "tail"))
             ELSE Returned(Advance([S EXCEPT !.cur = Append(@, id)], "tail"))

OvernightStep(s) ==
    /\ ses[s].pc = "loop"
    /\ ses[s].alg = "overnight"
    /\ LET R == OvernightIter(ses[s])
       IN  /\ ses' = [ses EXCEPT ![s] = R.S]
           /\ next_id' = R.nid
    /\ UNCHANGED <<segments, profile, trips, last, nruns>>

(* "Don't forget last trip" *)
OvernightLast(S) ==
    IF Len(S.cur) >= S.p.min_nights
    THEN LET R == create_overnight_trip(S, S.cur)
         IN  IF R.raised THEN R
             ELSE [R EXCEPT !.S = [R.S EXCEPT !.trip_count = @ + 1, !.pc = "commit"]]
    ELSE Returned([S EXCEPT !.pc = "commit"])

OvernightFlush(s) ==
    /\ ses[s].pc = "tail"
    /\ ses[s].alg = "overnight"
    /\ LET R == OvernightLast(ses[s])
       IN  /\ ses' = [ses EXCEPT ![s] = R.S]
           /\ next_id' = R.nid
    /\ UNCHANGED <<segments, profile, trips, last, nruns>>

(* ------------------------------------------------- distance-based clusterer *)
(* the representative point of a segment: the visit's location, else the   *)
(* activity's start location, else none                                    *)
far_location(id) ==
    IF IsVisit(id) /\ segments[id].location # NoNum THEN segments[id].location
    ELSE IF IsActivity(id) /\ segments[id].start_location # NoNum
         THEN segments[id].start_location
         ELSE NoNum

(* if distance and distance / 1000 >= distance_threshold_km *)
is_far(id, p) ==
    /\ far_location(id) # NoNum
    /\ TruthyNum(far_location(id))
    /\ far_location(id) >= p.distance_threshold_km * 1000

far_segments(p) ==
    {id \in SegIds :
        /\ segments[id].segment_type \in {"visit", "activity"}
        /\ InRange(segments[id], p)
        /\ is_far(id, p)}

(* The distance-based detector falling back on the home test of the other  *)
(* two detectors, which a home place identifier satisfies.                 *)
no_home_location_or_place == no_home

(* if not profile: return 0 / if not profile.home_location: return 0 *)
no_home_location == ~profile.exists \/ ~profile.home_location

(* the detector after its guards and the scan for far segments *)
distance_pass(p) ==
    IF no_home_location THEN {ReturnZero("distance_based", p)}
    ELSE {Begin("distance_based", p, list, "tail") :
             list \in OrderByStartTime(far_segments(p))}

StartDistance(s, A) ==
    /\ ses[s].pc = "idle"
    /\ nruns < MaxRuns
    /\ \E p \in A : \E S \in distance_pass(p) : ses' = [ses EXCEPT ![s] = S]
    /\ nruns' = nruns + 1
    /\ UNCHANGED <<segments, profile, trips, next_id, last>>

(* time_gap <= time_gap_hours *)
same_cluster(p, last_segment, segment) ==
    segments[segment].start_time - segments[last_segment].end_time <= p.time_gap_hours

(* A lone far segment accepted as a cluster. *)
cluster_is_trip_from_1(cluster) == Len(cluster) >= 1

(* len(current_cluster) >= 2 *)
cluster_is_trip(cluster) == Len(cluster) >= MinClusterSize

DistanceIter(S, destinations) ==
    LET id == S.list[S.i]
    IN  IF S.cur = <<>>
        THEN Returned(Advance([S EXCEPT !.cur = <<id>>], "tail"))
        ELSE IF same_cluster(S.p, S.cur[Len(S.cur)], id)
             THEN Returned(Advance([S EXCEPT !.cur = Append(@, id)], "tail"))
             ELSE IF cluster_is_trip(S.cur)
                  THEN LET R == create_clustered_trip(S, S.cur, destinations)
                       IN  IF R.raised THEN R
                           ELSE [R EXCEPT !.S = Advance(
                                    [R.S EXCEPT !.trip_count = @ + 1, !.cur = <<id>>], "tail")]
                  ELSE Returned(Advance([S EXCEPT !.cur = <<id>>], "tail"))

DistanceStep(s) ==
    /\ ses[s].pc = "loop"
    /\ ses[s].alg = "distance_based"
    /\ \E destinations \in ListsOfSet(Range(PlaceIds(ses[s].cur))) :
         LET R == DistanceIter(ses[s], destinations)
         IN  /\ ses' = [ses EXCEPT ![s] = R.S]
             /\ next_id' = R.nid
    /\ UNCHANGED <<segments, profile, trips, last, nruns>>

(* "Don't forget last cluster" *)
DistanceLast(S, destinations) ==
    IF cluster_is_trip(S.cur)
    THEN LET R == create_clustered_trip(S, S.cur, destinations)
         IN  IF R.raised THEN R
             ELSE [R EXCEPT !.S = [R.S EXCEPT !.trip_count = @ + 1, !.pc = "commit"]]
    ELSE Returned([S EXCEPT !.pc = "commit"])

DistanceFlush(s) ==
    /\ ses[s].pc = "tail"
    /\ ses[s].alg = "distance_based"
    /\ \E destinations \in ListsOfSet(Range(PlaceIds(ses[s].cur))) :
         LET R == DistanceLast(ses[s], destinations)
         IN  /\ ses' = [ses EXCEPT ![s] = R.S]
             /\ next_id' = R.nid
    /\ UNCHANGED <<segments, profile, trips, last, nruns>>

(* ------------------------------------------------------- commit and close *)
(* The detector returning without its commit: the flushed rows are lost    *)
(* when the session is closed.                                             *)
Commit_left_out(s) ==
    /\ ses[s].pc = "commit"
    /\ ses' = [ses EXCEPT ![s] = [@ EXCEPT !.pc = "done", !.pending = <<>>]]
    /\ UNCHANGED <<segments, profile, trips, next_id, last, nruns>>

(* a commit that replaces the table by the rows of the transaction *)
Commit_overwrites(s) ==
    /\ ses[s].pc = "commit"
    /\ IF FlushRaises(ses[s])
       THEN /\ ses' = [ses EXCEPT ![s] = Raised(ses[s]).S]
            /\ UNCHANGED trips
       ELSE /\ trips' = ses[s].pending
            /\ ses' = [ses EXCEPT ![s] = [@ EXCEPT !.pc = "done", !.pending = <<>>]]
    /\ UNCHANGED <<segments, profile, next_id, last, nruns>>

(* self.db.commit(): flushes what is still unflushed, then makes the rows  *)
(* of the transaction durable and visible to the other sessions.           *)
Commit(s) ==
    /\ ses[s].pc = "commit"
    /\ IF FlushRaises(ses[s])
       THEN /\ ses' = [ses EXCEPT ![s] = Raised(ses[s]).S]
            /\ UNCHANGED trips
       ELSE /\ trips' = trips \o ses[s].pending
            /\ ses' = [ses EXCEPT ![s] = [@ EXCEPT !.pc = "done", !.pending = <<>>]]
    /\ UNCHANGED <<segments, profile, next_id, last, nruns>>

(* ------------------------------------------------------- detect_all_trips *)
(* the arguments detect_all_trips hands to the detectors: overnight gets   *)
(* no min_nights and distance-based no time_gap_hours, so both take their  *)
(* defaults                                                                *)
all_args(args) ==
    [args EXCEPT !.min_nights = DefaultMinNights, !.time_gap_hours = DefaultTimeGapHours]

InAll(S, args, stats) == [S EXCEPT !.all = TRUE, !.args = args, !.stats = stats]

(* detect_all_trips called: stats = {} and the memory detector begins *)
StartAll(s, A) ==
    /\ ses[s].pc = "idle"
    /\ nruns < MaxRuns
    /\ \E args \in A : \E S \in memory_pass(all_args(args)) :
          ses' = [ses EXCEPT ![s] = InAll(S, args, <<>>)]
    /\ nruns' = nruns + 1
    /\ UNCHANGED <<segments, profile, trips, next_id, last>>

(* stats[...] = count *)
with_count(S) == Append(S.stats, <<S.alg, S.trip_count>>)

(* a detector has returned to detect_all_trips, which records its count    *)
(* and calls the next one                                                  *)
NextDetector(s) ==
    /\ ses[s].pc = "done"
    /\ ses[s].all
    /\ ses[s].alg # "distance_based"
    /\ LET S == ses[s]
           p == all_args(S.args)
           pass == IF S.alg = "timeline_memory" THEN home_pass(p)
                   ELSE IF S.alg = "home_based" THEN overnight_pass(p)
                   ELSE distance_pass(p)
       IN  \E N \in pass : ses' = [ses EXCEPT ![s] = InAll(N, S.args, with_count(S))]
    /\ UNCHANGED <<segments, profile, trips, next_id, last, nruns>>

(* ------------------------------------------------------------- the summary *)
RECURSIVE SumTotalDistance(_)
SumTotalDistance(rows) ==
    IF rows = <<>> THEN 0 ELSE Head(rows).total_distance_meters + SumTotalDistance(Tail(rows))

(* metres / 1000 as a number with three decimals *)
kilometres(metres) == [whole |-> metres \div 1000, thousandths |-> metres % 1000]

(* TripDetector.get_trip_summary over the rows its session sees *)
get_trip_summary(rows) ==
    [total_trips |-> Len(rows),
     by_algorithm |->
        [a \in {rows[k].detection_algorithm : k \in DOMAIN rows} |->
            Cardinality({k \in DOMAIN rows : rows[k].detection_algorithm = a})],
     multi_day_trips |-> Cardinality({k \in DOMAIN rows : rows[k].is_multi_day}),
     total_distance_km |-> kilometres(SumTotalDistance(rows))]

(* summary = detector.get_trip_summary(start_dt, end_dt): a call with      *)
(* more positional arguments than the method has parameters raises         *)
detect_summary(rows) ==
    IF detect_summary_args > get_trip_summary_params
    THEN [raised |-> "TypeError", value |-> <<>>]
    ELSE [raised |-> None, value |-> get_trip_summary(rows)]

(* --------------------------------------------------------------- the close *)
(* The detect command after the detectors: on a normal return it asks for  *)
(* the summary, on an exception it reports the error; either way the       *)
(* finally clause closes the session.  The command's outcome is kept in    *)
(* last for comparison with the next run.                                  *)
Close(s) ==
    /\ ses[s].pc \in {"done", "failed"}
    /\ (ses[s].all /\ ses[s].pc = "done") => ses[s].alg = "distance_based"
    /\ last' = [alg |-> ses[s].alg, p |-> ses[s].p, trip_count |-> ses[s].trip_count,
                pc |-> ses[s].pc, size |-> Len(trips), all |-> ses[s].all,
                stats |-> IF ses[s].pc = "done" THEN with_count(ses[s]) ELSE <<>>,
                summary |-> IF ses[s].pc = "done" THEN detect_summary(trips) ELSE NoCall]
    /\ ses' = [ses EXCEPT ![s] = IdleSession]
    /\ UNCHANGED <<segments, profile, trips, next_id, nruns>>


(* ------------------------------------------------- initial states and runs *)
(* the timeline holding the catalogue entries T, imported in catalogue     *)
(* order; a segment's id is its position                                   *)
Timeline(T) ==
    LET order == CHOOSE f \in [1..Cardinality(T) -> T] :
                     \A i, j \in 1..Cardinality(T) : i < j => f[i] < f[j]
    IN  [i \in 1..Cardinality(T) |-> Pool[order[i]]]

InitWith(P, Profiles) ==
    /\ \E T \in SUBSET P :
          /\ Cardinality(T) <= MaxSegs
          /\ segments = Timeline(T)
    /\ profile \in Profiles
    /\ trips = <<>>
    /\ next_id = 1
    /\ ses = [s \in Sessions |-> IdleSession]
    /\ last = NoRun
    /\ nruns = 0

WithHome(A, Km, Hours) ==
    {[a EXCEPT !.min_distance_km = k, !.min_duration_hours = h] :
        a \in A, k \in Km, h \in Hours}

WithNights(A, Nights) == {[a EXCEPT !.min_nights = n] : a \in A, n \in Nights}

WithDistance(A, Km, Gap) ==
    {[a EXCEPT !.distance_threshold_km = k, !.time_gap_hours = g] :
        a \in A, k \in Km, g \in Gap}

Detect(s, M, H, O, D) ==
    \/ StartMemory(s, M)
    \/ MemoryStep(s)
    \/ StartHome(s, H)
    \/ HomeStep(s)
    \/ HomeEnd(s)
    \/ StartOvernight(s, O)
    \/ OvernightStep(s)
    \/ OvernightFlush(s)
    \/ StartDistance(s, D)
    \/ DistanceStep(s)
    \/ DistanceFlush(s)
    \/ Commit(s)
    \/ Close(s)

All == Args(NoDate, NoDate, 0, 0, 0, 0, 0)
Part == Args(9, 56, 0, 0, 0, 0, 0)

(* Sequential runs of the four detectors by one caller. *)
SeqPool == {2, 3, 5, 7, 8, 9, 12, 13}

Init == InitWith(SeqPool, {NoProfile, EmptyProfile, IdProfile, CoordProfile})

Next ==
    Detect(1, {All, Part},
              WithHome({All}, {0}, {4}) \cup WithHome({Part}, {1}, {1}),
              WithNights({All}, {1, 2}) \cup WithNights({Part}, {1}),
              WithDistance({All, Part}, {5}, {6}))

Spec == Init /\ [][Next]_vars

(* Runs of the home-based segmenter. *)
HomePool == {1, 2, 3, 4, 5, 6, 9, 12, 16}

InitHome == InitWith(HomePool, {IdProfile, CoordProfile, BothProfile})

NextHome ==
    \/ StartHome(1, WithHome({All}, {0}, {1}) \cup WithHome({All}, {1}, {4})
                    \cup WithHome({Part}, {0}, {4}) \cup WithHome({Part}, {1}, {1}))
    \/ HomeStep(1)
    \/ HomeEnd(1)
    \/ Commit(1)
    \/ Close(1)

SpecHome == InitHome /\ [][NextHome]_vars

(* Runs of the overnight-stay clusterer. *)
OvernightPool == {7, 8, 9, 10, 11, 21, 22, 25, 26}

InitOvernight == InitWith(OvernightPool, {IdProfile, CoordProfile})

NextOvernight ==
    \/ StartOvernight(1, WithNights({All}, {0, 1, 2}) \cup WithNights({Part}, {1}))
    \/ OvernightStep(1)
    \/ OvernightFlush(1)
    \/ Commit(1)
    \/ Close(1)

SpecOvernight == InitOvernight /\ [][NextOvernight]_vars

(* Runs of the distance-based clusterer. *)
DistancePool == {1, 2, 3, 4, 6, 7, 8, 11, 16}

InitDistance == InitWith(DistancePool, {IdProfile, CoordProfile, BothProfile})

NextDistance ==
    \/ StartDistance(1, WithDistance({All}, {1, 5}, {6}) \cup WithDistance({All, Part}, {5}, {2}))
    \/ DistanceStep(1)
    \/ DistanceFlush(1)
    \/ Commit(1)
    \/ Close(1)

SpecDistance == InitDistance /\ [][NextDistance]_vars

(* Concurrent runs: two callers, each with its own session. *)
ConcPool == {2, 4, 7, 9, 12}

InitConc == InitWith(ConcPool, {BothProfile})

NextConc ==
    \E s \in Sessions :
        Detect(s, {All}, WithHome({All}, {0}, {4}), WithNights({All}, {1}),
               WithDistance({All}, {5}, {6}))

SpecConc == InitConc /\ [][NextConc]_vars

(* Timelines with zero-duration segments and segments of equal start time, *)
(* thresholds at 0.                                                        *)
EdgePool == {2, 5, 7, 17, 18, 19, 20}

InitEdge == InitWith(EdgePool, {IdProfile, CoordProfile, BothProfile})

NextEdge ==
    Detect(1, {All}, WithHome({All}, {0}, {0}), WithNights({All}, {1}),
           WithDistance({All}, {0, 5}, {6}))

SpecEdge == InitEdge /\ [][NextEdge]_vars

(* Runs of the memory-replay detector. *)
MemoryPool == {2, 12, 13, 14, 18, 23, 24}

InitMemory == InitWith(MemoryPool, {NoProfile, IdProfile})

NextMemory ==
    \/ StartMemory(1, {All, Part})
    \/ MemoryStep(1)
    \/ Commit(1)
    \/ Close(1)

SpecMemory == InitMemory /\ [][NextMemory]_vars

(* Timelines whose segments overlap or nest in time. *)
OverlapPool == {3, 5, 6, 7, 9, 12, 23, 26, 27}

InitOverlap == InitWith(OverlapPool, {IdProfile, CoordProfile})

NextOverlap ==
    Detect(1, {All}, WithHome({All}, {0}, {1}), WithNights({All}, {1}),
           WithDistance({All}, {5}, {2}))

SpecOverlap == InitOverlap /\ [][NextOverlap]_vars

(* The detect command with algorithm "all". *)
AllPool == {2, 3, 4, 5, 7, 8, 23}

InitAll == InitWith(AllPool, {IdProfile, CoordProfile, BothProfile})

NextAll ==
    \/ StartAll(1, WithDistance(WithHome({All, Part}, {0}, {1}), {5}, {0}))
    \/ MemoryStep(1)
    \/ HomeStep(1)
    \/ HomeEnd(1)
    \/ OvernightStep(1)
    \/ OvernightFlush(1)
    \/ DistanceStep(1)
    \/ DistanceFlush(1)
    \/ Commit(1)
    \/ NextDetector(1)
    \/ Close(1)

SpecAll == InitAll /\ [][NextAll]_vars

(* ------------------------------------------------------------ properties *)
TripKey(t) == <<t.start_time, t.end_time, t.detection_algorithm>>

UniqueKeys(rows) ==
    \A i, j \in DOMAIN rows : i < j => TripKey(rows[i]) # TripKey(rows[j])

Made(S) == {k \in DOMAIN Visible(S) : Visible(S)[k].id \in Range(S.made)}

(* C1: with one caller running the detectors one after the other, the      *)
(* trips table (the committed rows and the rows the running detector has   *)
(* flushed) never holds two rows with the same (start_time, end_time,      *)
(* detection_algorithm).                                                   *)
C1_OneTripPerKey == UniqueKeys(Visible(ses[1]))

(* a second run proposed a trip again and the lookup skipped it *)
C1_Witness ==
    /\ ses[1].pc = "done"
    /\ ses[1].alg = "home_based"
    /\ ses[1].trip_count > 0
    /\ ses[1].made = <<>>
    /\ \E k \in DOMAIN trips : trips[k].detection_algorithm = "home_based"

(* C2: when two runs of the same detector, each in its own session,        *)
(* interleave, the committed trips table still holds at most one row per   *)
(* (start_time, end_time, detection_algorithm) once both have returned.    *)
C2_AtomicDedup ==
    (ses[1].pc = "done" /\ ses[2].pc = "done" /\ ses[1].alg = ses[2].alg)
        => UniqueKeys(trips)


(* the run that has just returned repeats the run before it *)
SameRunAgain ==
    /\ ses[1].pc = "done"
    /\ last.pc = "done"
    /\ last.alg = ses[1].alg
    /\ last.p = ses[1].p

(* C3 as stated: a detector run a second time with the same arguments      *)
(* returns the count the first run returned.                               *)
C3_SameCount == SameRunAgain => ses[1].trip_count = last.trip_count


(* the home-based run of session 1 *)
HomeRun == ses[1].alg = "home_based" /\ ses[1].list # <<>>

(* the stream processed is [home, away, away, home] and the away run       *)
(* meets both thresholds                                                   *)
C4_Timeline ==
    LET S == ses[1]
    IN  /\ HomeRun
        /\ Len(S.list) = 4
        /\ is_home(S.list[1]) /\ ~is_home(S.list[2])
        /\ ~is_home(S.list[3]) /\ is_home(S.list[4])
        /\ SumDistance(<<S.list[2], S.list[3]>>) >= S.p.min_distance_km * 1000
        /\ segments[S.list[4]].start_time - segments[S.list[2]].start_time
               >= S.p.min_duration_hours

TrailingRun(list) ==
    {list[i] : i \in {i \in DOMAIN list : \A j \in DOMAIN list : is_home(list[j]) => j < i}}

(* C5: the non-home segments still open when the stream ends are members   *)
(* of no trip the run creates; a stream with no home visit after its first *)
(* non-home segment yields no trip at all.                                 *)
C5_TrailingRunDropped ==
    (HomeRun /\ ses[1].pc \in {"commit", "done"}) =>
        LET S == ses[1]
        IN  /\ \A k \in Made(S) :
                  Range(Visible(S)[k].segments) \cap TrailingRun(S.list) = {}
            /\ (\A i, j \in DOMAIN S.list : (is_home(S.list[i]) /\ j < i) => is_home(S.list[j]))
                  => (S.made = <<>> /\ S.trip_count = 0)

(* a run that created a trip and ended with an open run over the thresholds *)
C5_Witness ==
    /\ HomeRun
    /\ ses[1].pc = "done"
    /\ ses[1].made # <<>>
    /\ TrailingRun(ses[1].list) # {}
    /\ \E id \in TrailingRun(ses[1].list) : IsActivity(id) /\ distance_or_0(id) >= 1000
    /\ ses[1].p.min_distance_km = 1

(* C6: every home_based trip has a home visit in the processed stream      *)
(* before its first member segment.                                        *)
C6_HomeOnBothEnds ==
    HomeRun =>
        LET S == ses[1]
        IN  \A k \in Made(S) :
               \E i, j \in DOMAIN S.list :
                  /\ i < j
                  /\ is_home(S.list[i])
                  /\ S.list[j] = Visible(S)[k].segments[1]


RECURSIVE GroupsByGap(_, _, _)
(* list cut into consecutive groups: a segment opens a new group when it   *)
(* starts more than gap hours after the end of the segment before it       *)
GroupsByGap(list, gap, groups) ==
    IF list = <<>> THEN groups
    ELSE IF groups = <<>> THEN GroupsByGap(Tail(list), gap, << <<Head(list)>> >>)
    ELSE LET g == groups[Len(groups)]
         IN  IF segments[Head(list)].start_time - segments[g[Len(g)]].end_time > gap
             THEN GroupsByGap(Tail(list), gap, Append(groups, <<Head(list)>>))
             ELSE GroupsByGap(Tail(list), gap,
                              [groups EXCEPT ![Len(groups)] = Append(@, Head(list))])

GroupKey(g, algorithm) ==
    <<segments[g[1]].start_time, segments[g[Len(g)]].end_time, algorithm>>

(* C7: when an overnight run has ended, each group of candidate visits     *)
(* with at least min_nights visits is stored as exactly one overnight trip *)
(* from the first visit's start to the last visit's end, and a smaller     *)
(* group gave no trip in this run.                                         *)
C7_OvernightGroups ==
    (ses[1].alg = "overnight" /\ ses[1].pc \in {"done", "failed"}) =>
        LET S == ses[1]
        IN  \A g \in Range(GroupsByGap(S.list, 48, <<>>)) :
               /\ Len(g) >= S.p.min_nights =>
                     Cardinality({k \in DOMAIN trips :
                                     TripKey(trips[k]) = GroupKey(g, "overnight")}) = 1
               /\ Len(g) < S.p.min_nights =>
                     \A k \in Made(S) : TripKey(trips[k]) # GroupKey(g, "overnight")


(* C8: when a distance-based run has ended, each cluster of far segments   *)
(* with two or more segments is stored as exactly one distance_based trip, *)
(* whose members, if the run created it, are the cluster's segments, and a *)
(* lone far segment gave no trip in this run; the last cluster is treated  *)
(* like the others.                                                        *)
C8_DistanceClusters ==
    (ses[1].alg = "distance_based" /\ ses[1].pc \in {"done", "failed"}) =>
        LET S == ses[1]
        IN  \A g \in Range(GroupsByGap(S.list, S.p.time_gap_hours, <<>>)) :
               /\ Len(g) >= 2 =>
                     /\ Cardinality({k \in DOMAIN trips :
                                        TripKey(trips[k]) = GroupKey(g, "distance_based")}) = 1
                     /\ \A k \in Made(S) :
                           TripKey(trips[k]) = GroupKey(g, "distance_based")
                               => trips[k].segments = g
               /\ Len(g) < 2 =>
                     \A k \in Made(S) : TripKey(trips[k]) # GroupKey(g, "distance_based")

(* two far segments 3 hours apart under time_gap_hours = 6 became the one  *)
(* trip of the run, next to a lone far segment                             *)
C8_Witness ==
    /\ ses[1].alg = "distance_based"
    /\ ses[1].pc = "done"
    /\ ses[1].p.time_gap_hours = 6
    /\ Len(ses[1].made) = 1
    /\ \E g, h \in Range(GroupsByGap(ses[1].list, 6, <<>>)) :
          /\ Len(g) = 2
          /\ segments[g[2]].start_time - segments[g[1]].end_time = 3
          /\ Len(h) = 1
          /\ h = <<ses[1].list[Len(ses[1].list)]>>

ActivityTypes(segs) ==
    {segments[id].activity_type : id \in {id \in Range(segs) : IsActivity(id)}}

FirstOf(segs, mode) ==
    CHOOSE i \in DOMAIN segs :
        /\ IsActivity(segs[i]) /\ segments[segs[i]].activity_type = mode
        /\ \A j \in 1..(i - 1) :
              ~(IsActivity(segs[j]) /\ segments[segs[j]].activity_type = mode)

(* C9: the primary transport mode of every stored trip is absent when no   *)
(* member segment is an activity; otherwise it is an activity type of the  *)
(* members that no other type exceeds in summed distance, and that comes   *)
(* first in segment order among the types of equal sum.                    *)
C9_PrimaryMode ==
    \A k \in DOMAIN Visible(ses[1]) :
        LET t == Visible(ses[1])[k]
            types == ActivityTypes(t.segments)
        IN  IF types = {} THEN t.primary_transport_mode = None
            ELSE /\ t.primary_transport_mode \in types
                 /\ \A m \in types :
                       \/ mode_distances(t.segments, m)
                             < mode_distances(t.segments, t.primary_transport_mode)
                       \/ /\ mode_distances(t.segments, m)
                                = mode_distances(t.segments, t.primary_transport_mode)
                          /\ FirstOf(t.segments, t.primary_transport_mode)
                                <= FirstOf(t.segments, m)

(* a trip over walking 500 then driving 500 stored as walking, and a trip  *)
(* without any activity                                                    *)
C9_Witness ==
    /\ \E k \in DOMAIN trips :
          /\ Len(trips[k].segments) = 2
          /\ segments[trips[k].segments[1]].activity_type = "walking"
          /\ segments[trips[k].segments[2]].activity_type = "driving"
          /\ segments[trips[k].segments[1]].distance_meters = 500
          /\ segments[trips[k].segments[2]].distance_meters = 500
          /\ trips[k].primary_transport_mode = "walking"
    /\ \E k \in DOMAIN trips :
          /\ trips[k].detection_algorithm # "timeline_memory"
          /\ trips[k].primary_transport_mode = None

(* C10: every trip row has is_multi_day set exactly when its end_time      *)
(* falls on a later calendar day than its start_time.                      *)
C10_MultiDayFlag ==
    \A k \in DOMAIN Visible(ses[1]) :
        LET t == Visible(ses[1])[k]
        IN  t.is_multi_day <=> (t.end_time \div 24 > t.start_time \div 24)

(* 22:00 to 01:00 stored as multi-day, next to a materialized trip within  *)
(* one day                                                                 *)
C10_Witness ==
    /\ \E k \in DOMAIN trips :
          /\ trips[k].start_time % 24 = 22
          /\ trips[k].end_time = trips[k].start_time + 3
          /\ trips[k].is_multi_day
    /\ \E k \in DOMAIN trips :
          /\ trips[k].detection_algorithm # "timeline_memory"
          /\ trips[k].end_time \div 24 = trips[k].start_time \div 24
          /\ ~trips[k].is_multi_day

(* C11 as stated: every trip row, committed or flushed, has end_time       *)
(* strictly after start_time, whatever the timeline and the thresholds.    *)
C11_EndAfterStart ==
    \A k \in DOMAIN Visible(ses[1]) :
        Visible(ses[1])[k].end_time > Visible(ses[1])[k].start_time

(* there is no profile row, or the row has no home place identifier and no *)
(* home location                                                           *)
NoHomeReference ==
    \/ ~profile.exists
    \/ (profile.home_place_id = None /\ ~profile.home_location)

(* C12: with no profile, or a profile with neither home place identifier   *)
(* nor home location, a run of the home-based, overnight or distance-based *)
(* detector counts 0, flushes no row and leaves the trips table as the     *)
(* previous run left it.                                                   *)
C12_NoHomeNoWrites ==
    (NoHomeReference /\ ses[1].alg \in {"home_based", "overnight", "distance_based"}) =>
        /\ ses[1].pc = "done"
        /\ ses[1].trip_count = 0
        /\ ses[1].pending = <<>>
        /\ ses[1].made = <<>>
        /\ Len(trips) = last.size

(* the overnight detector returned 0 on a profile row without a home, over *)
(* a timeline with a night away and a store that already holds a trip      *)
C12_Witness ==
    /\ profile = EmptyProfile
    /\ ses[1].alg = "overnight"
    /\ ses[1].pc = "done"
    /\ ses[1].p.min_nights = 1
    /\ \E id \in SegIds : IsVisit(id) /\ segments[id].start_time = 21
    /\ trips # <<>>

(* the visits every reading of the night window accepts: away from the     *)
(* home place, from 20:00 or later to 08:00 or earlier, 6 hours or more    *)
NightsAwayById(p) ==
    {id \in SegIds :
        /\ IsVisit(id)
        /\ segments[id].place_id \notin {None, profile.home_place_id}
        /\ segments[id].start_time % 24 >= 20
        /\ segments[id].end_time % 24 <= 8
        /\ segments[id].end_time - segments[id].start_time >= 6
        /\ InRange(segments[id], p)}

(* C13: on a profile without home coordinate a distance-based run counts   *)
(* 0, flushes nothing and leaves the trips table alone, also when the      *)
(* profile has a home place identifier; on that profile a home-based run   *)
(* walks every segment of the range and an overnight run walks every       *)
(* night spent away from the home place.                                   *)
C13_DistanceNeedsCoordinate ==
    LET S == ses[1]
    IN  /\ ((~profile.exists \/ ~profile.home_location) /\ S.alg = "distance_based") =>
              /\ S.pc = "done"
              /\ S.trip_count = 0
              /\ S.pending = <<>>
              /\ S.made = <<>>
              /\ Len(trips) = last.size
        /\ (profile.exists /\ profile.home_place_id # None /\ ~profile.home_location) =>
              /\ S.alg = "home_based" =>
                    Range(S.list) = {id \in SegIds : InRange(segments[id], S.p)}
              /\ S.alg = "overnight" => NightsAwayById(S.p) \subseteq Range(S.list)

(* identifier-only profile: the distance-based run returned 0 over two far *)
(* segments an hour apart, after a home-based or overnight run had stored  *)
(* a trip                                                                  *)
C13_Witness ==
    /\ profile = IdProfile
    /\ ses[1].alg = "distance_based"
    /\ ses[1].pc = "done"
    /\ \E i, j \in SegIds :
          /\ i # j
          /\ far_location(i) >= 5000 /\ far_location(j) >= 5000
          /\ segments[j].start_time - segments[i].end_time \in 0..2
    /\ \E k \in DOMAIN trips : trips[k].detection_algorithm \in {"home_based", "overnight"}

(* trip row t replays memory segment id *)
ReplayOf(t, id) ==
    /\ t.detection_algorithm = "timeline_memory"
    /\ t.start_time = segments[id].start_time
    /\ t.end_time = segments[id].end_time
    /\ t.total_distance_meters =
          (IF segments[id].distance_from_origin_kms = NoNum
           THEN 0 ELSE segments[id].distance_from_origin_kms * 1000)
    /\ t.destinations = segments[id].destination_place_ids
    /\ t.segments = <<id>>

(* C14 as stated: when a memory-replay run has ended, every memory segment *)
(* of the range has exactly one timeline_memory trip at its bounds, and    *)
(* every trip the run created replays one memory segment of the range:     *)
(* its bounds, its distance in metres (0 when absent), its destinations in *)
(* the given order and the segment itself as only member.                  *)
C14_MemoryReplay ==
    (ses[1].alg = "timeline_memory" /\ ses[1].pc \in {"done", "failed"}) =>
        LET S == ses[1]
        IN  /\ \A id \in Range(S.list) :
                  Cardinality({k \in DOMAIN trips :
                      TripKey(trips[k]) = <<segments[id].start_time, segments[id].end_time,
                                            "timeline_memory">>}) = 1
            /\ \A k \in Made(S) : \E id \in Range(S.list) : ReplayOf(trips[k], id)

(* away from home as C15 reads it: another place identifier in identifier  *)
(* mode, 1.0 km or more from the home coordinate in coordinate mode        *)
AwayFromHome(id) ==
    IF profile.home_place_id # None
    THEN segments[id].place_id # profile.home_place_id
    ELSE segments[id].location # NoNum /\ segments[id].location >= 1000

(* C15 as stated: the visits an overnight run groups are exactly the       *)
(* visits of the range that last 6 hours or more, start at hour 20 or      *)
(* later or end at hour 8 or earlier, and are away from home.              *)
C15_OvernightCandidates ==
    (ses[1].alg = "overnight" /\ ~NoHomeReference) =>
        Range(ses[1].list) =
            {id \in SegIds :
                /\ IsVisit(id)
                /\ InRange(segments[id], ses[1].p)
                /\ segments[id].end_time - segments[id].start_time >= 6
                /\ (segments[id].start_time % 24 >= 20 \/ segments[id].end_time % 24 <= 8)
                /\ AwayFromHome(id)}

(* the place identifier of each visit of g, in order, repeats included *)
PlacesOf(g) == [i \in DOMAIN g |-> segments[g[i]].place_id]

(* C16 as stated: when an overnight run has ended, every group of at least *)
(* min_nights candidate visits has its overnight trip in the trips table,  *)
(* and the trips this run created list the place of every visit of their   *)
(* group in encounter order, a place visited on two nights twice.          *)
C16_DuplicateDestinations ==
    (ses[1].alg = "overnight" /\ ses[1].pc \in {"done", "failed"}) =>
        LET S == ses[1]
        IN  \A g \in Range(GroupsByGap(S.list, 48, <<>>)) :
               Len(g) >= S.p.min_nights =>
                  \E k \in DOMAIN trips :
                     /\ TripKey(trips[k]) = GroupKey(g, "overnight")
                     /\ trips[k].id \in Range(S.made) => trips[k].destinations = PlacesOf(g)

(* C17 as stated: an overnight pass in which the write of one trip is      *)
(* rejected still returns; no row of the rejected trip is in the trips     *)
(* table, and every other group of at least min_nights visits has its      *)
(* trip there.                                                             *)
C17_FailureIsolated ==
    (ses[1].alg = "overnight" /\ ses[1].pc \in {"done", "failed"}) =>
        LET S == ses[1]
        IN  /\ S.pc = "done"
            /\ \A k \in DOMAIN trips : IsInjective(trips[k].destinations)
            /\ \A g \in Range(GroupsByGap(S.list, 48, <<>>)) :
                  (Len(g) >= S.p.min_nights /\ IsInjective(PlacesOf(g))) =>
                     \E k \in DOMAIN trips : TripKey(trips[k]) = GroupKey(g, "overnight")

TripIds(rows) == {rows[k].id : k \in DOMAIN rows}

(* C18: while a detector's pass is under way the trips table is as the     *)
(* previous run left it and holds none of the trips the pass has created,  *)
(* which are all in the open transaction; when the detector has returned   *)
(* normally the table has grown by exactly the trips the pass created.     *)
C18_BatchCommit ==
    LET S == ses[1]
    IN  /\ S.pc \in {"loop", "tail", "commit"} =>
              /\ Len(trips) = last.size
              /\ Range(S.made) \cap TripIds(trips) = {}
              /\ Range(S.made) = TripIds(S.pending)
        /\ S.pc = "done" =>
              /\ Len(trips) = last.size + Len(S.made)
              /\ Range(S.made) \subseteq TripIds(trips)
              /\ S.pending = <<>>

(* a run that created two trips has returned, after an earlier run had     *)
(* committed its own                                                       *)
C18_Witness ==
    /\ ses[1].pc = "done"
    /\ Len(ses[1].made) = 2
    /\ last.size > 0
    /\ Len(trips) = last.size + 2

(* the segments ids by start time *)
ByStart(ids) == CHOOSE f \in OrderByStartTime(ids) : TRUE

RECURSIVE HomeKeys(_, _, _)
(* the keys of the trips the home-based detector creates on list when it   *)
(* runs alone on an empty store                                            *)
HomeKeys(list, cur, p) ==
    IF list = <<>> THEN {}
    ELSE IF is_home(Head(list))
         THEN (IF /\ cur # <<>>
                  /\ SumDistance(cur) >= p.min_distance_km * 1000
                  /\ segments[Head(list)].start_time - segments[cur[1]].start_time
                         >= p.min_duration_hours
               THEN {<<segments[cur[1]].start_time, segments[Head(list)].start_time,
                       "home_based">>}
               ELSE {})
              \cup HomeKeys(Tail(list), <<>>, p)
         ELSE HomeKeys(Tail(list), Append(cur, Head(list)), p)

(* the keys of the trips each detector creates when it runs alone with     *)
(* arguments p                                                             *)
AloneKeys(p) ==
    {<<segments[id].start_time, segments[id].end_time, "timeline_memory">> :
        id \in {id \in SegIds : segments[id].segment_type = "memory"
                                 /\ InRange(segments[id], p)}}
    \cup (IF NoHomeReference THEN {}
          ELSE HomeKeys(ByStart({id \in SegIds : InRange(segments[id], p)}), <<>>, p))
    \cup (IF NoHomeReference THEN {}
          ELSE {GroupKey(g, "overnight") :
                   g \in {g \in Range(GroupsByGap(ByStart(overnight_visits(p)), 48, <<>>)) :
                             Len(g) >= p.min_nights}})
    \cup (IF ~profile.exists \/ ~profile.home_location THEN {}
          ELSE {GroupKey(g, "distance_based") :
                   g \in {g \in Range(GroupsByGap(ByStart(far_segments(p)),
                                                   p.time_gap_hours, <<>>)) :
                             Len(g) >= 2}})

DetectorOrder == <<"timeline_memory", "home_based", "overnight", "distance_based">>

(* detect_all_trips is over: the last detector has returned, or one of     *)
(* them has raised                                                         *)
AllOver(S) ==
    S.all /\ (S.pc = "failed" \/ (S.pc = "done" /\ S.alg = "distance_based"))

(* C19 as stated: inside detect_all_trips the detectors run in the order   *)
(* memory, home-based, overnight, distance-based over the time range of    *)
(* the call, the open transaction holds rows of the running detector only, *)
(* and when detect_all_trips is over every trip that one of the four       *)
(* detectors creates alone is in the trips table, whatever the other       *)
(* detectors stored at the same bounds.                                    *)
C19_AllDetectors ==
    LET S == ses[1]
    IN  S.all =>
          /\ [i \in 1..(Len(S.stats) + 1) |->
                 IF i <= Len(S.stats) THEN S.stats[i][1] ELSE S.alg]
                = SubSeq(DetectorOrder, 1, Len(S.stats) + 1)
          /\ S.p.start_date = S.args.start_date
          /\ S.p.end_date = S.args.end_date
          /\ \A k \in DOMAIN S.pending : S.pending[k].detection_algorithm = S.alg
          /\ AllOver(S) => AloneKeys(S.p) \subseteq {TripKey(trips[k]) : k \in DOMAIN trips}

(* C20 as stated: a detect command whose detectors returned normally gets  *)
(* the summary of the trips table: the total trip count, the multi-day     *)
(* count, the total distance, the trip count of every algorithm tag, and a *)
(* distance for every tag that has a count.                                *)
C20_SummaryForCaller ==
    (last.alg # None /\ last.pc = "done") =>
        /\ last.summary.raised = None
        /\ {"total_trips", "multi_day_trips", "total_distance_km", "by_algorithm",
             "distance_by_algorithm"} \subseteq DOMAIN last.summary.value
        /\ last.summary.value.total_trips = last.size
        /\ DOMAIN last.summary.value.distance_by_algorithm
              = DOMAIN last.summary.value.by_algorithm

(* C21 as stated: after any sequence of detector runs, also of the same   *)
(* detector with other time ranges or thresholds, a segment is a member    *)
(* of at most one trip of each algorithm.                                  *)
C21_OneTripPerSegment ==
    LET rows == Visible(ses[1])
    IN  \A i, j \in DOMAIN rows :
            (i # j /\ rows[i].detection_algorithm = rows[j].detection_algorithm)
                => Range(rows[i].segments) \cap Range(rows[j].segments) = {}

(* C22 as stated: no step of a detector run updates or deletes a trip: the *)
(* rows of the trips table stay as they are and new rows come after them,  *)
(* and a row enters the transaction only when no visible row has its       *)
(* (start, end, algorithm) key, so a candidate that finds its key stored   *)
(* writes nothing, whatever its distance, destinations or members are.     *)
C22_NoUpdateNoDelete ==
    [][/\ Len(trips') >= Len(trips)
       /\ SubSeq(trips', 1, Len(trips)) = trips
       /\ \A s \in Sessions :
             (ses'[s].pending # ses[s].pending /\ ses'[s].pending # <<>>) =>
                 LET n == Len(ses[s].pending)
                     row == ses'[s].pending[n + 1]
                 IN  /\ Len(ses'[s].pending) = n + 1
                     /\ SubSeq(ses'[s].pending, 1, n) = ses[s].pending
                     /\ \A k \in DOMAIN Visible(ses[s]) :
                            /\ TripKey(Visible(ses[s])[k]) # TripKey(row)
                            /\ Visible(ses[s])[k].id # row.id]_vars

(* a memory was skipped on the key of a row an earlier run committed, and  *)
(* the stored row has another member segment, distance and destinations    *)
C22_Witness ==
    LET S == ses[1]
    IN  /\ S.alg = "timeline_memory"
        /\ S.i > 1
        /\ S.made = <<>>
        /\ \E k \in DOMAIN trips :
              LET id == S.list[S.i - 1]
              IN  /\ TripKey(trips[k])
                        = <<segments[id].start_time, segments[id].end_time, "timeline_memory">>
                  /\ trips[k].segments # <<id>>
                  /\ trips[k].total_distance_meters # memory_distance(id)
                  /\ trips[k].destinations # segments[id].destination_place_ids

(* C23 as stated: any two trips one detector creates in one run have       *)
(* disjoint time intervals, one ending at or before the start of the       *)
(* other, also when the segments of the timeline overlap or nest.          *)
C23_DisjointTrips ==
    LET S == ses[1]
        rows == Visible(S)
    IN  \A i, j \in Made(S) :
            i # j => \/ rows[i].end_time <= rows[j].start_time
                     \/ rows[j].end_time <= rows[i].start_time

(* the home-based run has just handled the segment at position i - 1 *)
HomeHandled(S) ==
    S.alg = "home_based" /\ S.pc \in {"loop", "tail"} /\ S.i > 1

(* C24 as stated: in coordinate mode (no home place id, a home             *)
(* coordinate) a visit with a location is a home visit exactly when it is  *)
(* less than 1.0 km from the home coordinate, from distance 0 upward: a    *)
(* home visit empties the accumulator, any other visit is accumulated.     *)
C24_HomeWithinRadius ==
    LET S == ses[1]
    IN  (HomeHandled(S) /\ profile.exists /\ profile.home_place_id = None
            /\ profile.home_location) =>
          LET id == S.list[S.i - 1]
          IN  (segments[id].segment_type = "visit" /\ segments[id].location # NoNum) =>
                 IF segments[id].location < 1000
                 THEN S.cur = <<>>
                 ELSE S.cur # <<>> /\ S.cur[Len(S.cur)] = id

(* the interval [start_time, end_time] lies in the time range of p, both   *)
(* ends of the range included; a bound that is not given does not filter   *)
WithinRange(start_time, end_time, p) ==
    /\ (p.start_date = NoDate \/ start_time >= p.start_date)
    /\ (p.end_date = NoDate \/ end_time <= p.end_date)

(* the segments the detector of S would consider without a time range *)
Candidates(S) ==
    LET p == [S.p EXCEPT !.start_date = NoDate, !.end_date = NoDate]
    IN  CASE S.alg = "timeline_memory" ->
                {id \in SegIds : segments[id].segment_type = "memory"}
          [] S.alg = "home_based" -> SegIds
          [] S.alg = "overnight" -> overnight_visits(p)
          [] S.alg = "distance_based" -> far_segments(p)
          [] OTHER -> {}

(* C25 as stated: every detector considers a segment exactly when its      *)
(* start_time >= start_date and its end_time <= end_date, so no segment    *)
(* outside the range is a member of a trip the run creates, and no trip    *)
(* the run creates starts before start_date or ends after end_date.        *)
C25_RangeFilter ==
    LET S == ses[1]
        rows == Visible(S)
    IN  /\ \A id \in Range(S.list) :
              WithinRange(segments[id].start_time, segments[id].end_time, S.p)
        /\ S.list # <<>> =>
              Range(S.list) =
                 {id \in Candidates(S) :
                     WithinRange(segments[id].start_time, segments[id].end_time, S.p)}
        /\ \A k \in Made(S) :
              /\ WithinRange(rows[k].start_time, rows[k].end_time, S.p)
              /\ \A id \in Range(rows[k].segments) :
                    WithinRange(segments[id].start_time, segments[id].end_time, S.p)

(* a run over a range created a trip that starts on start_date or ends on  *)
(* end_date, with segments of the timeline left outside the range          *)
C25_Witness ==
    LET S == ses[1]
        rows == Visible(S)
    IN  /\ S.p.start_date # NoDate
        /\ \E id \in SegIds :
              ~WithinRange(segments[id].start_time, segments[id].end_time, S.p)
        /\ \E k \in Made(S) :
              \/ rows[k].start_time = S.p.start_date
              \/ rows[k].end_time = S.p.end_date

(* the segments of list after its last home visit, in order *)
OpenRun(list) ==
    LET homes == {j \in DOMAIN list : is_home(list[j])}
        from == IF homes = {} THEN 1
                ELSE 1 + CHOOSE j \in homes : \A h \in homes : h <= j
    IN  SubSeq(list, from, Len(list))

RECURSIVE ActivityMetres(_)
ActivityMetres(run) ==
    IF run = <<>> THEN 0
    ELSE (IF segments[Head(run)].segment_type = "activity"
             /\ segments[Head(run)].distance_meters # NoNum
          THEN segments[Head(run)].distance_meters ELSE 0)
         + ActivityMetres(Tail(run))

VisitPlaces(run) ==
    {segments[run[i]].place_id :
        i \in {i \in DOMAIN run : /\ segments[run[i]].segment_type = "visit"
                                  /\ segments[run[i]].place_id # None}}

(* the home visits among the first n segments of list that close a         *)
(* non-empty pending run which meets both thresholds of p                  *)
AcceptedClosings(list, n, p) ==
    {j \in 1..n :
        LET run == OpenRun(SubSeq(list, 1, j - 1))
        IN  /\ is_home(list[j])
            /\ run # <<>>
            /\ ActivityMetres(run) >= p.min_distance_km * 1000
            /\ segments[list[j]].start_time - segments[run[1]].start_time
                  >= p.min_duration_hours}

GapBefore(list, j) ==
    segments[list[j]].start_time - segments[list[j - 1]].end_time

(* position j opens a group: it is the first candidate, or it starts more  *)
(* than 48 hours after the end of the candidate before it                  *)
OpensGroup(list, j) == j = 1 \/ GapBefore(list, j) > 48

(* C27 as stated: the overnight candidates are grouped in start order; a   *)
(* candidate opens a new group exactly when it starts strictly more than   *)
(* 48 hours after the end of the candidate before it, and any smaller gap, *)
(* a negative one included, extends the open group, so the groups are the  *)
(* consecutive runs of the candidate list between such gaps.               *)
C27_OvernightGrouping ==
    LET S == ses[1]
        n == S.i - 1
    IN  (S.alg = "overnight" /\ S.pc \in {"loop", "tail"}) =>
          /\ \A j \in 2..Len(S.list) :
                segments[S.list[j - 1]].start_time <= segments[S.list[j]].start_time
          /\ n = 0 => S.cur = <<>>
          /\ n > 0 =>
                LET b == CHOOSE j \in 1..n :
                            /\ OpensGroup(S.list, j)
                            /\ \A h \in (j + 1)..n : ~OpensGroup(S.list, h)
                IN  S.cur = SubSeq(S.list, b, n)
          /\ \A k \in Made(S) :
                \E a \in 1..n : \E c \in a..n :
                   /\ Visible(S)[k].segments = SubSeq(S.list, a, c)
                   /\ OpensGroup(S.list, a)
                   /\ OpensGroup(S.list, c + 1)
                   /\ \A h \in (a + 1)..c : ~OpensGroup(S.list, h)

(* a group that holds a candidate starting before the end of the one       *)
(* before it was closed by a candidate more than 48 hours later            *)
C27_Witness ==
    LET S == ses[1]
    IN  /\ S.alg = "overnight"
        /\ S.pc \in {"loop", "tail"}
        /\ S.made # <<>>
        /\ \E j \in 2..(S.i - 1) :
              /\ GapBefore(S.list, j) < 0
              /\ \E h \in (j + 1)..(S.i - 1) : OpensGroup(S.list, h)

(* the representative point of a segment, as its distance from home: the   *)
(* visit's location, else the activity's start location                    *)
RepresentativePoint(id) ==
    IF segments[id].segment_type = "visit" /\ segments[id].location # NoNum
    THEN segments[id].location
    ELSE IF segments[id].segment_type = "activity"
         THEN segments[id].start_location
         ELSE NoNum

(* the visits and activities in the range of p whose representative point  *)
(* is at least distance_threshold_km from home                             *)
FarOnes(p) ==
    {id \in SegIds :
        /\ segments[id].segment_type \in {"visit", "activity"}
        /\ WithinRange(segments[id].start_time, segments[id].end_time, p)
        /\ RepresentativePoint(id) # NoNum
        /\ RepresentativePoint(id) >= p.distance_threshold_km * 1000}

(* position j opens a cluster: it is the first far segment, or it starts   *)
(* more than gap hours after the end of the far segment before it          *)
OpensCluster(list, j, gap) == j = 1 \/ GapBefore(list, j) > gap

(* C28 as stated: the distance-based clusterer takes the segments whose    *)
(* representative point is at least distance_threshold_km from home, in    *)
(* start order, and opens a new cluster exactly when a far segment starts  *)
(* strictly more than time_gap_hours after the end of the one before it;   *)
(* a trip made of a cluster has the sum of its activities' distances and   *)
(* the place ids of its visits as destinations, each once.                 *)
C28_DistanceClustering ==
    LET S == ses[1]
        n == S.i - 1
        gap == S.p.time_gap_hours
    IN  (S.alg = "distance_based" /\ S.pc \in {"loop", "tail"}) =>
          /\ Range(S.list) = FarOnes(S.p)
          /\ \A j \in 2..Len(S.list) :
                segments[S.list[j - 1]].start_time <= segments[S.list[j]].start_time
          /\ n = 0 => S.cur = <<>>
          /\ n > 0 =>
                LET b == CHOOSE j \in 1..n :
                            /\ OpensCluster(S.list, j, gap)
                            /\ \A h \in (j + 1)..n : ~OpensCluster(S.list, h, gap)
                IN  S.cur = SubSeq(S.list, b, n)
          /\ \A k \in Made(S) :
                LET t == Visible(S)[k]
                IN  /\ \E a \in 1..n : \E c \in a..n :
                          /\ t.segments = SubSeq(S.list, a, c)
                          /\ OpensCluster(S.list, a, gap)
                          /\ OpensCluster(S.list, c + 1, gap)
                          /\ \A h \in (a + 1)..c : ~OpensCluster(S.list, h, gap)
                    /\ t.total_distance_meters = ActivityMetres(t.segments)
                    /\ Range(t.destinations) = VisitPlaces(t.segments)
                    /\ IsInjective(t.destinations)

(* C29 as stated: the count a detector returns is the number of trip rows  *)
(* with its algorithm tag that the run added to the trips table (the size  *)
(* of the table after the run minus its size before); a candidate skipped  *)
(* on its key and an empty group are not counted.                          *)
C29_CountIsRowsAdded ==
    LET S == ses[1]
    IN  (S.pc = "done" /\ S.alg # None /\ ~S.all) =>
          /\ S.trip_count = Len(trips) - last.size
          /\ \A k \in (last.size + 1)..Len(trips) : trips[k].detection_algorithm = S.alg

(* C30 as stated: every trip in the table has at least one member          *)
(* segment, its members are numbered 0..n-1 in the order they were         *)
(* accumulated (the start order of the pass), and every member lies inside *)
(* the trip's bounds: the trip starts no later than the member and the     *)
(* member ends no later than the trip.                                     *)
C30_MembersInsideTrip ==
    LET rows == Visible(ses[1])
    IN  \A k \in DOMAIN rows :
          LET t == rows[k]
          IN  /\ t.segments # <<>>
              /\ IsInjective(t.segments)
              /\ \A j \in 2..Len(t.segments) :
                    segments[t.segments[j - 1]].start_time
                       <= segments[t.segments[j]].start_time
              /\ \A id \in Range(t.segments) :
                    /\ t.start_time <= segments[id].start_time
                    /\ segments[id].end_time <= t.end_time

====
